---- MODULE Spec2Model ----
(***************************************************************************)
(* State-machine model of UserApi (src/user_api/user_api.py): the account  *)
(* service facade over an injected credential store (DBUserManager), role  *)
(* store (DBRoleManager) and token authority (AuthManager).                *)
(*                                                                         *)
(* Every store call is one atomic step.  authenticate makes four store     *)
(* calls and reset_password two, so each is a chain of steps a second      *)
(* client may interleave with; the other methods make one call (or none)   *)
(* and are single steps.  The collaborators are not part of the source     *)
(* file, so their behaviour follows their documented contract.             *)
(***************************************************************************)
EXTENDS Integers, Naturals, Sequences, FiniteSets, TLC

\* ------------------------------------------------------------- bounds
\* Number of events (API calls started, clock ticks) in one behaviour, with
\* two clients calling concurrently and with one client.
MaxCalls == 3
MaxSeqCalls == 4

Procs == {1, 2}
Emails == {"a@x.io", "b@x.io"}
Passwords == {"pw1", "pw2"}
\* required_roles arguments: lists, duplicates allowed
RoleLists == {<<"admin">>, <<"admin", "editor">>, <<"editor", "admin">>,
              <<"editor", "editor">>}
UserIds == {1, 2}

VARIABLES
    users,      \* credential + role store: sequence of user rows, id = index
    nsalt,      \* number of salts the token authority has generated
    clock,      \* current time
    issued,     \* tokens generated so far
    call,       \* per client: the call in progress (op, pc, arg, loc)
    res,        \* per client: outcome of its last finished call
    hist,       \* history, per user row: the (email, password) it was registered
                \* with and the salt and hash its last reset_password replaced
    ncalls      \* history: number of calls started

vars == <<users, nsalt, clock, issued, call, res, hist, ncalls>>

\* ------------------------------------------------------------ values
\* Python None
None == [none |-> TRUE]
NoArg == [none |-> TRUE]
NoRes == [kind |-> "none", val |-> None]
Idle == [op |-> "none", pc |-> "idle", arg |-> NoArg, loc |-> NoArg]

Ok(v) == [kind |-> "ok", val |-> v]
Raise(k, v) == [kind |-> k, val |-> v]

\* The public error taxonomy
Taxonomy == {"NotFound", "Conflict", "Unauthorized", "Forbidden",
             "UnprocessableEntity", "TokenInvalid"}

\* A store call's outcome: a value, or a store-level exception
DBOk(v) == [exc |-> "none", val |-> v]
DBRaise(e) == [exc |-> e, val |-> None]

\* ----------------------------------------------- AuthManager (contract)
TokenTTL == 1

\* generate_salt: a fresh value on every call
Auth_generate_salt == nsalt + 1

\* generate_hash: deterministic, one-way, collision-free in (password, salt)
Auth_generate_hash(password, salt) == <<"H", password, salt>>
NoHash == <<"H", "", 0>>

\* generate_token: the payload, an expiry, a signature under the secret
Auth_generate_token(payload) ==
    [payload |-> payload, exp |-> clock + TokenTTL, sig |-> "signed"]

\* a token that was not signed with the process secret
ForgedToken ==
    [payload |-> [id |-> 1, email |-> "a@x.io", name |-> "ann", active |-> TRUE,
                  roles |-> {"admin", "editor"}],
     exp |-> MaxSeqCalls + TokenTTL + 1, sig |-> "forged"]

Auth_verifies(token) == token.sig = "signed" /\ clock < token.exp

\* get_token_data: the embedded payload, or TokenInvalid
Auth_get_token_data(token) ==
    IF Auth_verifies(token) THEN Ok(token.payload)
    ELSE Raise("TokenInvalid", None)

\* is_token_valid: non-throwing variant
Auth_is_token_valid(token) == Auth_verifies(token)

\* ---------------------------------------------- DBUserManager (contract)
UserRowIds == 1..Len(users)
HasEmail(email) == \E i \in UserRowIds : users[i].email = email
IdOfEmail(email) == CHOOSE i \in UserRowIds : users[i].email = email

\* the user representation handed to callers (no salt, no hash)
PayloadOf(i) ==
    [id |-> i, email |-> users[i].email, name |-> users[i].name,
     active |-> users[i].active, roles |-> users[i].roles]

DB_get_user_salt(email) ==
    IF HasEmail(email) THEN DBOk(users[IdOfEmail(email)].salt)
    ELSE DBRaise("DBUserNotFound")

DB_is_user_hash_valid(email, hash) ==
    HasEmail(email) /\ users[IdOfEmail(email)].hash = hash

\* lookup by email; None when there is no such user
DB_get_user_information_by_email(email) ==
    IF HasEmail(email) THEN DBOk(PayloadOf(IdOfEmail(email))) ELSE DBOk(None)

\* lookup by id; None when there is no such user
DB_get_user_information_by_id(user_id) ==
    IF user_id \in UserRowIds THEN DBOk(PayloadOf(user_id)) ELSE DBOk(None)

\* the store after modify_hash_salt(email, hash, salt); returns nothing
DB_modify_hash_salt(email, hash, salt) ==
    [i \in UserRowIds |->
        IF users[i].email = email
        THEN [users[i] EXCEPT !.hash = hash, !.salt = salt]
        ELSE users[i]]

\* save_new_user: the email is unique; returns the new user's representation
DB_save_new_user(email, name, active, hash, salt, roles) ==
    IF HasEmail(email)
    THEN [exc |-> "DBUserConflict", val |-> None, store |-> users]
    ELSE [exc |-> "none",
          val |-> [id |-> Len(users) + 1, email |-> email, name |-> name,
                   active |-> active, roles |-> roles],
          store |-> Append(users,
                      [email |-> email, name |-> name, active |-> active,
                       hash |-> hash, salt |-> salt, roles |-> roles])]

\* update_user_information(user_id, **fields): fields.set names the keys the
\* payload carries; rows keep the fields it does not carry
UpdatedRow(row, fields) ==
    [email |-> IF "email" \in fields.set THEN fields.email ELSE row.email,
     name |-> IF "name" \in fields.set THEN fields.name ELSE row.name,
     active |-> IF "active" \in fields.set THEN fields.active ELSE row.active,
     roles |-> IF "roles" \in fields.set THEN fields.roles ELSE row.roles,
     hash |-> row.hash, salt |-> row.salt]

DB_update_user_information(user_id, fields) ==
    IF user_id \notin UserRowIds
    THEN [exc |-> "DBUserNotFound", val |-> None, store |-> users]
    ELSE IF /\ "email" \in fields.set
            /\ \E i \in UserRowIds : i # user_id /\ users[i].email = fields.email
    THEN [exc |-> "DBUserConflict", val |-> None, store |-> users]
    ELSE LET row == UpdatedRow(users[user_id], fields) IN
         [exc |-> "none",
          val |-> [id |-> user_id, email |-> row.email, name |-> row.name,
                   active |-> row.active, roles |-> row.roles],
          store |-> [users EXCEPT ![user_id] = row]]

\* DBRoleManager.get_user_roles
DB_get_user_roles(user_id) ==
    IF user_id \in UserRowIds THEN users[user_id].roles ELSE {}

\* ------------------------------------------------------------ inputs
Profiles ==
    {[name |-> "ann", active |-> TRUE, roles |-> {"admin"}],
     [name |-> "bob", active |-> FALSE, roles |-> {"admin", "editor"}],
     [name |-> "bob", active |-> TRUE, roles |-> {}]}

RegisterPayloads ==
    {[email |-> e, password |-> pw, name |-> f.name, active |-> f.active,
      roles |-> f.roles] : e \in Emails, pw \in Passwords, f \in Profiles}

UpdatePayloads ==
    {[set |-> {"active"}, email |-> "a@x.io", name |-> "ann", active |-> b, roles |-> {}]
        : b \in BOOLEAN}
    \cup {[set |-> {"email"}, email |-> e, name |-> "ann", active |-> TRUE, roles |-> {}]
        : e \in Emails}
    \cup {[set |-> {"name", "roles"}, email |-> "a@x.io", name |-> "bob",
           active |-> TRUE, roles |-> {}]}

Tokens == issued \cup {ForgedToken}

\* ----------------------------------------------------------- UserApi
CanStart(p, budget) == call[p].pc \in {"idle", "done"} /\ ncalls < budget

\* a call begins: op, arguments, first position and locals
Started(p, op, pc, arg, loc) ==
    call' = [call EXCEPT ![p] =
                [op |-> op, pc |-> pc, arg |-> arg, loc |-> loc]]

\* a call in progress moves on
Moved(p, pc, loc) ==
    call' = [call EXCEPT ![p].pc = pc, ![p].loc = loc]

Returned(p, r) == res' = [res EXCEPT ![p] = r]

\* --- get_user_information
api_get_user_information(user_id) ==
    Ok(DB_get_user_information_by_id(user_id).val)

GetUserInformation(p, budget) ==
    \E user_id \in UserIds :
        /\ CanStart(p, budget)
        /\ Started(p, "get_user_information", "done", [user_id |-> user_id], NoArg)
        /\ Returned(p, api_get_user_information(user_id))
        /\ ncalls' = ncalls + 1
        /\ UNCHANGED <<users, nsalt, clock, issued, hist>>

\* --- update
update_result(r) ==
    IF r.exc = "DBUserConflict" THEN Raise("Conflict", None)
    ELSE IF r.exc = "DBUserNotFound" THEN Raise("NotFound", None)
    ELSE Ok(r.val)

Update(p, budget) ==
    \E user_id \in UserIds, payload \in UpdatePayloads :
        LET r == DB_update_user_information(user_id, payload) IN
        /\ CanStart(p, budget)
        /\ Started(p, "update", "done", [user_id |-> user_id, payload |-> payload], NoArg)
        /\ users' = r.store
        /\ Returned(p, update_result(r))
        /\ ncalls' = ncalls + 1
        /\ UNCHANGED <<nsalt, clock, issued, hist>>

\* --- authenticate
\* (variant: the hash is computed without the user's salt)
authenticate_hash_unsalted(password, salt) == Auth_generate_hash(password, 0)

authenticate_hash(password, salt) == Auth_generate_hash(password, salt)

\* (variant: the validity answer is ignored)
authenticate_never_rejects(valid) == FALSE

authenticate_rejects(valid) == ~valid

\* (variant: the active flag is ignored)
authenticate_ignores_active(payload) == TRUE

authenticate_is_active(payload) == payload.active

\* first store call: get_user_salt
AuthGetSalt(p, budget) ==
    \E email \in Emails, password \in Passwords :
        LET r == DB_get_user_salt(email)
            arg == [email |-> email, password |-> password] IN
        /\ CanStart(p, budget)
        /\ IF r.exc = "DBUserNotFound"
           THEN /\ Started(p, "authenticate", "done", arg, NoArg)
                /\ Returned(p, Raise("NotFound", None))
           ELSE /\ Started(p, "authenticate", "auth_hash", arg, [salt |-> r.val])
                /\ UNCHANGED res
        /\ ncalls' = ncalls + 1
        /\ UNCHANGED <<users, nsalt, clock, issued, hist>>

\* second store call: is_user_hash_valid
AuthCheckHash(p) ==
    /\ call[p].pc = "auth_hash"
    /\ LET hash == authenticate_hash(call[p].arg.password, call[p].loc.salt)
           valid == DB_is_user_hash_valid(call[p].arg.email, hash) IN
       IF authenticate_rejects(valid)
       THEN /\ Moved(p, "done", NoArg)
            /\ Returned(p, Raise("Unauthorized", None))
       ELSE /\ Moved(p, "auth_info", NoArg)
            /\ UNCHANGED res
    /\ UNCHANGED <<users, nsalt, clock, issued, hist, ncalls>>

\* third store call: get_user_information, then the active check;
\* subscripting a None payload is a TypeError
AuthGetInfo(p) ==
    /\ call[p].pc = "auth_info"
    /\ LET payload == DB_get_user_information_by_email(call[p].arg.email).val IN
       IF payload = None
       THEN /\ Moved(p, "done", NoArg)
            /\ Returned(p, Raise("TypeError", None))
       ELSE IF ~authenticate_is_active(payload)
       THEN /\ Moved(p, "done", NoArg)
            /\ Returned(p, Raise("Unauthorized", None))
       ELSE /\ Moved(p, "auth_roles", [payload |-> payload])
            /\ UNCHANGED res
    /\ UNCHANGED <<users, nsalt, clock, issued, hist, ncalls>>

\* fourth store call: get_user_roles, then the token
AuthIssue(p) ==
    /\ call[p].pc = "auth_roles"
    /\ LET payload == [call[p].loc.payload EXCEPT
                          !.roles = DB_get_user_roles(call[p].loc.payload.id)]
           token == Auth_generate_token(payload) IN
       /\ issued' = issued \cup {token}
       /\ Moved(p, "done", NoArg)
       /\ Returned(p, Ok([payload |-> payload, token |-> token]))
    /\ UNCHANGED <<users, nsalt, clock, hist, ncalls>>

\* --- reset_password
\* (variant: the salt generated last is used again)
reset_password_salt_reused == nsalt

reset_password_salt == Auth_generate_salt

\* the re-read's outcome as the method reports it
reset_password_result(r) ==
    IF r.exc = "DBUserNotFound" THEN Raise("UnprocessableEntity", None)
    ELSE Ok(r.val)

\* salt, hash, then the store call modify_hash_salt
ResetModify(p, budget) ==
    \E email \in Emails, password \in Passwords :
        LET salt == reset_password_salt
            hash == Auth_generate_hash(password, salt) IN
        /\ CanStart(p, budget)
        /\ Started(p, "reset_password", "reset_read",
                   [email |-> email, password |-> password], NoArg)
        /\ hist' = [i \in UserRowIds |->
                      IF users[i].email = email
                      THEN [hist[i] EXCEPT !.oldsalt = users[i].salt,
                                           !.oldhash = users[i].hash]
                      ELSE hist[i]]
        /\ users' = DB_modify_hash_salt(email, hash, salt)
        /\ nsalt' = nsalt + 1
        /\ ncalls' = ncalls + 1
        /\ UNCHANGED <<clock, issued, res>>

\* second store call: get_user_information
ResetReread(p) ==
    /\ call[p].pc = "reset_read"
    /\ LET r == DB_get_user_information_by_email(call[p].arg.email) IN
       /\ Moved(p, "done", NoArg)
       /\ Returned(p, reset_password_result(r))
    /\ UNCHANGED <<users, nsalt, clock, issued, hist, ncalls>>

\* --- register
register_salt == Auth_generate_salt

\* (variant: the store's conflict is not translated)
register_result_unchecked(r) == Ok(r.val)

register_result(r) ==
    IF r.exc = "DBUserConflict" THEN Raise("Conflict", None)
    ELSE Ok(r.val)

\* one store call: save_new_user
Register(p, budget) ==
    \E payload \in RegisterPayloads :
        LET salt == register_salt
            hash == Auth_generate_hash(payload.password, salt)
            r == DB_save_new_user(payload.email, payload.name, payload.active,
                                  hash, salt, payload.roles) IN
        /\ CanStart(p, budget)
        /\ Started(p, "register", "done", payload, [salt |-> salt])
        /\ users' = r.store
        /\ nsalt' = nsalt + 1
        /\ Returned(p, register_result(r))
        /\ hist' = IF r.exc = "none"
                   THEN Append(hist, [reg |-> <<payload.email, payload.password>>,
                                      oldsalt |-> 0, oldhash |-> NoHash])
                   ELSE hist
        /\ ncalls' = ncalls + 1
        /\ UNCHANGED <<clock, issued>>

\* --- token operations
api_get_token_data(token) == Auth_get_token_data(token)

api_is_token_valid(token) == Ok([bool |-> Auth_is_token_valid(token)])

\* the role codes the check compares against
\* (variant: the roles are looked up in the role store)
token_user_roles_live(data) == DB_get_user_roles(data.id)

token_user_roles(data) == data.roles

token_missing_roles(user_roles, roles) ==
    SelectSeq(roles, LAMBDA required_role : required_role \notin user_roles)

api_token_has_roles(token, roles) ==
    LET data == Auth_get_token_data(token) IN
    IF data.kind # "ok" THEN data
    ELSE LET missing_roles == token_missing_roles(token_user_roles(data.val), roles) IN
         IF Len(missing_roles) > 0
         THEN Raise("Forbidden", [missing |-> missing_roles])
         ELSE Ok([bool |-> TRUE])

GetTokenData(p, budget) ==
    \E token \in Tokens :
        /\ CanStart(p, budget)
        /\ Started(p, "get_token_data", "done", [token |-> token], NoArg)
        /\ Returned(p, api_get_token_data(token))
        /\ ncalls' = ncalls + 1
        /\ UNCHANGED <<users, nsalt, clock, issued, hist>>

IsTokenValid(p, budget) ==
    \E token \in Tokens :
        /\ CanStart(p, budget)
        /\ Started(p, "is_token_valid", "done", [token |-> token], NoArg)
        /\ Returned(p, api_is_token_valid(token))
        /\ ncalls' = ncalls + 1
        /\ UNCHANGED <<users, nsalt, clock, issued, hist>>

TokenHasRoles(p, budget) ==
    \E token \in Tokens, roles \in RoleLists :
        /\ CanStart(p, budget)
        /\ Started(p, "token_has_roles", "done", [token |-> token, roles |-> roles], NoArg)
        /\ Returned(p, api_token_has_roles(token, roles))
        /\ ncalls' = ncalls + 1
        /\ UNCHANGED <<users, nsalt, clock, issued, hist>>

\* --- time passes
Tick(budget) ==
    /\ ncalls < budget
    /\ clock' = clock + 1
    /\ ncalls' = ncalls + 1
    /\ UNCHANGED <<users, nsalt, issued, call, res, hist>>

\* ------------------------------------------------------ specifications
Init ==
    /\ users = <<>>
    /\ nsalt = 0
    /\ clock = 0
    /\ issued = {}
    /\ call = [p \in Procs |-> Idle]
    /\ res = [p \in Procs |-> NoRes]
    /\ hist = <<>>
    /\ ncalls = 0

Step(p, budget) ==
    \/ GetUserInformation(p, budget)
    \/ Update(p, budget)
    \/ AuthGetSalt(p, budget)
    \/ AuthCheckHash(p)
    \/ AuthGetInfo(p)
    \/ AuthIssue(p)
    \/ ResetModify(p, budget)
    \/ ResetReread(p)
    \/ Register(p, budget)
    \/ GetTokenData(p, budget)
    \/ IsTokenValid(p, budget)
    \/ TokenHasRoles(p, budget)

\* clients call concurrently; store calls interleave freely
Next == Tick(MaxCalls) \/ \E p \in Procs : Step(p, MaxCalls)

Spec == Init /\ [][Next]_vars

\* one client, one call at a time
SeqNext == Tick(MaxSeqCalls) \/ \E p \in {1} : Step(p, MaxSeqCalls)

SeqSpec == Init /\ [][SeqNext]_vars

\* ------------------------------------------------------------ claims
Done(p, op) == call[p].op = op /\ call[p].pc = "done"

\* Under SeqSpec every step that is not a tick is a step of client 1, and it
\* belongs to the call that is current after it.
SeqStep(op) == clock' = clock /\ call'[1].op = op
SeqReturns(op) == SeqStep(op) /\ call'[1].pc = "done"

\* pw is the password whose hash row i holds
IsPasswordOf(i, pw) == users[i].hash = Auth_generate_hash(pw, users[i].salt)

\* row i still carries the email and password it was registered with
StillRegistered(i, email, pw) ==
    /\ hist[i].reg = <<email, pw>>
    /\ users[i].email = email
    /\ IsPasswordOf(i, pw)

\* the outcome is a success whose token is_token_valid accepts
SucceedsWithValidToken(r) ==
    /\ r.kind = "ok"
    /\ api_is_token_valid(r.val.token) = Ok([bool |-> TRUE])

\* C1 (as amended): authenticate(email, password) for a pair stored by
\* register, made while the user still has that email and password, succeeds
\* with a token is_token_valid accepts when the user is active, and fails with
\* Unauthorized when the user is not active; name and roles do not matter.
C1_RegisteredActiveAuthenticates ==
    [][SeqReturns("authenticate") =>
        \A i \in UserRowIds :
            StillRegistered(i, call'[1].arg.email, call'[1].arg.password) =>
                IF users[i].active
                THEN SucceedsWithValidToken(res[1])'
                ELSE res'[1].kind = "Unauthorized"]_vars

\* C1 witness: a registered pair has just authenticated and holds a valid token
C1_Witness ==
    /\ Done(1, "authenticate")
    /\ res[1].kind = "ok"
    /\ api_is_token_valid(res[1].val.token) = Ok([bool |-> TRUE])
    /\ \E i \in UserRowIds :
          StillRegistered(i, call[1].arg.email, call[1].arg.password)

\* C1 (original statement): authenticate(email, password) for a pair stored
\* by register succeeds with a valid token whatever the active flag was.
C1_Original ==
    [][SeqReturns("authenticate") =>
        \A i \in UserRowIds :
            StillRegistered(i, call'[1].arg.email, call'[1].arg.password) =>
                SucceedsWithValidToken(res[1])']_vars

\* C2: authenticate with an email no user has fails with NotFound, with a
\* password that is not the user's fails with Unauthorized; a failing
\* authenticate generates no token, and authenticate never writes the store.
C2_WrongCredentialsRejected ==
    [][SeqStep("authenticate") =>
        LET email == call'[1].arg.email
            password == call'[1].arg.password IN
        /\ users' = users
        /\ issued' # issued => call'[1].pc = "done" /\ res'[1].kind = "ok"
        /\ call'[1].pc = "done" /\ ~HasEmail(email) =>
              res'[1].kind = "NotFound" /\ issued' = issued
        /\ call'[1].pc = "done" /\ HasEmail(email)
              /\ ~IsPasswordOf(IdOfEmail(email), password) =>
              res'[1].kind = "Unauthorized" /\ issued' = issued]_vars

\* C2 witness: an active user was refused for a wrong password
C2_Witness ==
    /\ Done(1, "authenticate")
    /\ res[1].kind = "Unauthorized"
    /\ HasEmail(call[1].arg.email)
    /\ users[IdOfEmail(call[1].arg.email)].active
    /\ ~IsPasswordOf(IdOfEmail(call[1].arg.email), call[1].arg.password)

\* row i went through reset_password, which replaced a different password
WasReset(i) == hist[i].oldhash # NoHash
IsOldPasswordOf(i, pw) == hist[i].oldhash = Auth_generate_hash(pw, hist[i].oldsalt)
ResetChangedPassword(i) ==
    /\ WasReset(i)
    /\ \A pw \in Passwords : ~(IsOldPasswordOf(i, pw) /\ IsPasswordOf(i, pw))

\* what authenticate answers for a user whose password reset_password changed
ResetOutcome(onlyIfActive) ==
    /\ \A i \in UserRowIds : WasReset(i) => users[i].salt # hist[i].oldsalt
    /\ Done(1, "authenticate") =>
          \A i \in UserRowIds :
              users[i].email = call[1].arg.email /\ ResetChangedPassword(i) =>
                  /\ IsOldPasswordOf(i, call[1].arg.password) =>
                        res[1].kind = "Unauthorized"
                  /\ IsPasswordOf(i, call[1].arg.password)
                        /\ (onlyIfActive => users[i].active) =>
                        res[1].kind = "ok"

\* C3 (as amended): after reset_password(email, new) on a user whose password
\* was old # new, the stored salt differs from the one it replaced,
\* authenticate(email, old) fails with Unauthorized and authenticate(email,
\* new) succeeds if the user is active (an inactive user is still refused).
C3_ResetReplacesCredential == ResetOutcome(TRUE)

\* C3 witness: after a reset the new password authenticates
C3_Witness ==
    /\ Done(1, "authenticate")
    /\ res[1].kind = "ok"
    /\ \E i \in UserRowIds :
          /\ users[i].email = call[1].arg.email
          /\ ResetChangedPassword(i)
          /\ IsPasswordOf(i, call[1].arg.password)

\* C3 (original statement): ... and authenticate(email, new) succeeds, for
\* every existing user.
C3_Original == ResetOutcome(FALSE)

\* the elements of a list
Range(seq) == {seq[k] : k \in 1..Len(seq)}

\* names lists each element of wanted exactly once, in the order in which the
\* elements appear in required
NamesEachOnceInOrder(names, wanted, required) ==
    /\ Range(names) = wanted
    /\ \A a, b \in 1..Len(names) : a # b => names[a] # names[b]
    /\ \A a, b \in 1..Len(names) :
          a < b => \E x, y \in 1..Len(required) :
                      x < y /\ required[x] = names[a] /\ required[y] = names[b]

\* C4: for a valid token, token_has_roles returns true exactly when every
\* required role is among the token's role codes; otherwise it fails with
\* Forbidden naming the set difference required - held: every missing role,
\* each once, in the order of required_roles, and no role the token holds.
C4_MissingRolesNamedOnce ==
    Done(1, "token_has_roles") /\ res[1].kind # "TokenInvalid" =>
        LET required == call[1].arg.roles
            held == call[1].arg.token.payload.roles
            missing == Range(required) \ held IN
        IF missing = {}
        THEN res[1] = Ok([bool |-> TRUE])
        ELSE /\ res[1].kind = "Forbidden"
             /\ NamesEachOnceInOrder(res[1].val.missing, missing, required)

\* the row register(payload) writes when it draws salt
RegisteredRow(payload, salt) ==
    [email |-> payload.email, name |-> payload.name, active |-> payload.active,
     roles |-> payload.roles, salt |-> salt,
     hash |-> Auth_generate_hash(payload.password, salt)]

\* a step in which client p calls register (its salt is new, so the call
\* record changes)
RegisterStep(p) == call'[p].op = "register" /\ call'[p] # call[p]

\* C5: of register calls carrying the same email, made by two clients in any
\* order, the one that finds the email free succeeds and stores exactly its
\* own user; every one that finds it taken fails with Conflict and leaves the
\* stored user as it was; no two stored users ever share an email.
C5_OneRegistrationPerEmail ==
    /\ [](\A i, j \in UserRowIds : i # j => users[i].email # users[j].email)
    /\ [][\A p \in Procs : RegisterStep(p) =>
            IF HasEmail(call'[p].arg.email)
            THEN res'[p].kind = "Conflict" /\ users' = users
            ELSE /\ res'[p].kind = "ok"
                 /\ res'[p].val.email = call'[p].arg.email
                 /\ users' = Append(users,
                                RegisteredRow(call'[p].arg, call'[p].loc.salt))]_vars

\* C5 witness: both clients registered the same email with different data;
\* one succeeded, the other got Conflict, and the stored user is the winner's
C5_Witness ==
    \E p, q \in Procs :
        /\ Done(p, "register") /\ Done(q, "register")
        /\ call[p].arg.email = call[q].arg.email
        /\ call[p].arg.name # call[q].arg.name
        /\ res[p].kind = "ok" /\ res[q].kind = "Conflict"
        /\ users[res[p].val.id] = RegisteredRow(call[p].arg, call[p].loc.salt)

\* C6: every finished call returned a fully-formed value or failed with one
\* error of the public taxonomy; no None comes back as a success.
C6_TypedOutcomes ==
    \A p \in Procs : call[p].pc = "done" =>
        \/ res[p].kind \in Taxonomy
        \/ res[p].kind = "ok" /\ res[p].val # None

\* C7: reset_password fails with UnprocessableEntity when no user has the
\* email at the re-read.
C7_ResetOfAbsentUserFails ==
    Done(1, "reset_password") /\ ~HasEmail(call[1].arg.email) =>
        res[1].kind = "UnprocessableEntity"

\* C8: authenticate with the right password of an inactive user fails with
\* Unauthorized and generates no token, whatever the user's roles; an inactive
\* user turns active only through a successful update that sets the flag.
C8_InactiveUserRefused ==
    [][/\ SeqReturns("authenticate") =>
            \A i \in UserRowIds :
                /\ users[i].email = call'[1].arg.email
                /\ IsPasswordOf(i, call'[1].arg.password)
                /\ ~users[i].active
                => res'[1].kind = "Unauthorized" /\ issued' = issued
       /\ \A i \in UserRowIds :
            ~users[i].active /\ users'[i].active =>
                /\ SeqReturns("update")
                /\ call'[1].arg.user_id = i
                /\ "active" \in call'[1].arg.payload.set
                /\ call'[1].arg.payload.active
                /\ res'[1].kind = "ok"]_vars

\* C8 witness: an inactive user holding roles gave the right password and was
\* refused
C8_Witness ==
    /\ Done(1, "authenticate")
    /\ res[1].kind = "Unauthorized"
    /\ \E i \in UserRowIds :
          /\ users[i].email = call[1].arg.email
          /\ IsPasswordOf(i, call[1].arg.password)
          /\ ~users[i].active
          /\ users[i].roles # {}

\* what the three token operations answer for a token and a role list
TokenOutcome(token, roles) ==
    [valid |-> api_is_token_valid(token),
     data |-> api_get_token_data(token),
     has_roles |-> api_token_has_roles(token, roles)]

TokenOps == {"is_token_valid", "get_token_data", "token_has_roles"}

\* C9: while the clock stands, no step (update, reset_password, register,
\* role or active changes) alters what is_token_valid, get_token_data and
\* token_has_roles answer for an issued token, and the token operations
\* themselves leave the stores untouched.
C9_TokenOutcomeIndependentOfStore ==
    [][/\ clock' = clock =>
            \A token \in Tokens, roles \in RoleLists :
                TokenOutcome(token, roles)' = TokenOutcome(token, roles)
       /\ (\E op \in TokenOps : SeqStep(op)) =>
            users' = users /\ issued' = issued /\ nsalt' = nsalt]_vars

\* C9 witness: a token still passes a role check for a role its user has
\* lost, or after its user was deactivated
C9_Witness ==
    /\ Done(1, "token_has_roles")
    /\ res[1] = Ok([bool |-> TRUE])
    /\ LET payload == call[1].arg.token.payload IN
       /\ payload.id \in UserRowIds
       /\ \/ ~users[payload.id].active
          \/ "admin" \in payload.roles /\ "admin" \notin users[payload.id].roles

\* C10: authenticate returns a token only if the password it was given is the
\* user's stored password at the moment it returns.
C10_NoTokenForStalePassword ==
    [][\A p \in Procs :
        call[p].pc = "auth_roles" /\ call'[p].pc = "done" /\ res'[p].kind = "ok" =>
            LET id == res'[p].val.payload.id IN
            users'[id].hash =
                Auth_generate_hash(call'[p].arg.password, users'[id].salt)]_vars

====
